---- MODULE Spec2Model ----
(***************************************************************************)
(* A model of go-car v2: index.Generate (v2/index/generator.go), the       *)
(* ReadOnly blockstore (v2/blockstore/readonly.go) and the CARv2 Writer    *)
(* (v2/writer.go).  A CARv1 payload is a sequence of bytes (naturals       *)
(* below 256); offsets are 0-based as in the Go code, so byte `off` of     *)
(* `b` is b[off + 1].                                                      *)
(***************************************************************************)
EXTENDS Integers, Sequences, FiniteSets, TLC

VARIABLES
    car,        \* SpecGen: the CARv1 payload handed to index.Generate
    blocks,     \* SpecGen: the (cid, data) pairs the payload was framed from
    genRes,     \* SpecGen: what index.Generate returned, or NoValue
    lookup,     \* SpecGen: what the last Index.Get returned, or NoValue
    file,       \* SpecStore: the CARv2 file at `path`
    mmapState,  \* SpecStore: the mmap.ReaderAt: "none", "open" or "closed"
    opened,     \* SpecStore: what OpenReadOnly / ReadOnlyOf returned
    ret,        \* SpecStore: what the last Has / Get / GetSize returned
    backing,    \* SpecKeys: the CARv1 payload AllKeysChan walks
    prod,       \* SpecKeys: the producer goroutine
    ch,         \* SpecKeys: the buffered channel of CIDs
    ctxDone,    \* SpecKeys: whether ctx has been cancelled
    cons,       \* SpecKeys: the consumer
    hist,       \* SpecKeys: what was being processed when ctx was cancelled
    w,          \* SpecWriter: the Writer and the io.Writer it writes to
    wpc         \* SpecWriter: the position inside Writer.WriteTo

genVars == <<car, blocks, genRes, lookup>>
storeVars == <<file, mmapState, opened, ret>>
keysVars == <<backing, prod, ch, ctxDone, cons, hist>>
writerVars == <<w, wpc>>
vars == <<genVars, storeVars, keysVars, writerVars>>

NoValue == [none |-> TRUE]

-----------------------------------------------------------------------------
(* Bounds of the model.                                                    *)

MaxFrames == 2

\* frames of a payload AllKeysChan walks: more than the channel buffers
MaxKeysFrames == 6

\* calls of WriteTo on one Writer
MaxCalls == 2

-----------------------------------------------------------------------------
(* Varints, CIDs, CARv1 framing.                                           *)

MaxVarintLen64 == 10

Pow2(s) == 2 ^ s

\* encoding/binary.ReadUvarint over an OffsetReader positioned at `off`:
\* low 7 bits per byte, MSB set continues; io.EOF when no byte is left,
\* io.ErrUnexpectedEOF when the input ends inside a varint.
RECURSIVE Uvarint(_, _, _, _, _)
Uvarint(b, off, i, x, s) ==
    IF i >= MaxVarintLen64
    THEN [err |-> "overflow", val |-> x, n |-> i]
    ELSE IF off + i >= Len(b)
    THEN [err |-> IF i > 0 THEN "ErrUnexpectedEOF" ELSE "EOF", val |-> x, n |-> i]
    ELSE LET c == b[off + i + 1] IN
         IF c < 128
         THEN IF i = MaxVarintLen64 - 1 /\ c > 1
              THEN [err |-> "overflow", val |-> x, n |-> i + 1]
              ELSE [err |-> "nil", val |-> x + c * Pow2(s), n |-> i + 1]
         ELSE Uvarint(b, off, i + 1, x + (c % 128) * Pow2(s), s + 7)

ReadUvarint(b, off) == Uvarint(b, off, 0, 0, 0)

RECURSIVE PutUvarint(_)
PutUvarint(v) ==
    IF v < 128 THEN <<v>> ELSE <<128 + (v % 128)>> \o PutUvarint(v \div 128)

\* b[from .. to), 0-based, clipped to b.
Slice(b, from, to) == SubSeq(b, from + 1, IF to > Len(b) THEN Len(b) ELSE to)

\* `k` consecutive varints from `at`: where they end and the value of the last.
RECURSIVE ReadVarints(_, _, _, _)
RECURSIVE ReadVarintsNext(_, _, _, _)
ReadVarints(b, at, k, last) ==
    IF k = 0 THEN [err |-> "nil", off |-> at, val |-> last]
    ELSE ReadVarintsNext(b, at, k, ReadUvarint(b, at))

ReadVarintsNext(b, at, k, v) ==
    IF v.err # "nil" THEN [err |-> "ErrUnexpectedEOF", off |-> at, val |-> 0]
    ELSE ReadVarints(b, at + v.n, k - 1, v.val)

\* the CID whose prefix `p` (four varints) was read from `at`
CidAt(b, at, p) ==
    IF p.err # "nil" \/ p.off + p.val > Len(b)
    THEN [err |-> "ErrUnexpectedEOF", cid |-> <<>>, n |-> 0]
    ELSE [err |-> "nil", cid |-> Slice(b, at, p.off + p.val), n |-> p.off + p.val - at]

\* internalio.ReadCid(store, at): version varint, codec varint, multihash-code
\* varint, digest-length varint, then digest-length bytes; returns the CID
\* (its bytes) and the number of bytes consumed.
ReadCid(b, at) == CidAt(b, at, ReadVarints(b, at, 4, 0))

\* multihash_digest(cid): the raw digest, the key of the sorted index.
Digest(cid) == Slice(cid, ReadVarints(cid, 0, 4, 0).off, Len(cid))

RECURSIVE Flatten(_)
Flatten(ss) == IF ss = <<>> THEN <<>> ELSE Head(ss) \o Flatten(Tail(ss))

\* The serialized CARv1 header: varint(len(body)) || body, the body holding
\* the version and the roots.
EncodeHeader(h) ==
    LET body == <<h.version>> \o Flatten(h.roots)
    IN PutUvarint(Len(body)) \o body

RECURSIVE ReadRoots(_, _)
RECURSIVE ReadRootsNext(_, _, _)
ReadRoots(body, at) ==
    IF at >= Len(body) THEN [err |-> "nil", roots |-> <<>>]
    ELSE ReadRootsNext(body, at, ReadCid(body, at))

ReadRootsNext(body, at, c) ==
    IF c.err # "nil" THEN [err |-> "InvalidHeader", roots |-> <<>>]
    ELSE [ReadRoots(body, at + c.n) EXCEPT !.roots = <<c.cid>> \o @]

\* the header decoded from its body
HeaderOf(body, roots) ==
    IF body[1] # 1 \/ roots.err # "nil" THEN [err |-> "InvalidHeader", header |-> NoValue]
    ELSE [err |-> "nil", header |-> [version |-> body[1], roots |-> roots.roots]]

HeaderBody(body) == HeaderOf(body, ReadRoots(body, 1))

HeaderAt(b, l) ==
    IF l.err # "nil" \/ l.val = 0 \/ l.n + l.val > Len(b)
    THEN [err |-> "InvalidHeader", header |-> NoValue]
    ELSE HeaderBody(Slice(b, l.n, l.n + l.val))

\* carv1.ReadHeader over a reader at offset 0.
ReadHeader(b) == HeaderAt(b, ReadUvarint(b, 0))

\* carv1.HeaderSize: the on-disk length of the serialized header.
HeaderSize(h) == Len(EncodeHeader(h))

\* One frame: varint(total_len) || cid_bytes || block_bytes.
Frame(blk) == PutUvarint(Len(blk.cid) + Len(blk.data)) \o blk.cid \o blk.data

RECURSIVE Frames(_)
Frames(bs) == IF bs = <<>> THEN <<>> ELSE Frame(Head(bs)) \o Frames(Tail(bs))

\* the frame's section split into its CID `c` and the payload after it
NodeOf(sec, c) ==
    IF c.err # "nil" THEN [err |-> "InvalidFrame", cid |-> <<>>, data |-> <<>>]
    ELSE [err |-> "nil", cid |-> c.cid, data |-> Slice(sec, c.n, Len(sec))]

NodeSection(sec) == NodeOf(sec, ReadCid(sec, 0))

NodeAt(b, off, l) ==
    IF l.err # "nil" THEN [err |-> l.err, cid |-> <<>>, data |-> <<>>]
    ELSE IF off + l.n + l.val > Len(b)
    THEN [err |-> "ErrUnexpectedEOF", cid |-> <<>>, data |-> <<>>]
    ELSE NodeSection(Slice(b, off + l.n, off + l.n + l.val))

\* util.ReadNode over a reader at `off`: the frame's CID and payload.
ReadNode(b, off) == NodeAt(b, off, ReadUvarint(b, off))

-----------------------------------------------------------------------------
(* The sorted index (v2/index), keyed by multihash digest.                 *)

\* Index.Load: bulk-build from records; a duplicate digest is DuplicateKey.
Load(records) ==
    IF \E i, j \in 1..Len(records) :
          i # j /\ Digest(records[i].cid) = Digest(records[j].cid)
    THEN [err |-> "DuplicateKey", idx |-> {}]
    ELSE [err |-> "nil",
          idx |-> {[digest |-> Digest(records[i].cid), offset |-> records[i].offset] :
                      i \in 1..Len(records)}]

IndexHit(hits) ==
    IF hits = {} THEN [err |-> "NotFound", offset |-> 0]
    ELSE [err |-> "nil", offset |-> (CHOOSE r \in hits : TRUE).offset]

\* Index.Get: find the bucket by digest width, then the record by digest.
IndexGet(idx, c) ==
    IndexHit({r \in idx : Len(r.digest) = Len(Digest(c)) /\ r.digest = Digest(c)})

-----------------------------------------------------------------------------
(* index.Generate                                                          *)

RecordOfNext(c, thisItemIdx, thisItemForNxt) == [cid |-> c, offset |-> thisItemForNxt]

\* records = append(records, Record{c, uint64(thisItemIdx)})
RecordOf(c, thisItemIdx, thisItemForNxt) == [cid |-> c, offset |-> thisItemIdx]

\* The loop of Generate with rdr at `off`: the records, or the error.
\* GenerateItem is one pass, the varint `l` read at thisItemIdx and the CID
\* `c` read at thisItemForNxt.
RECURSIVE GenerateLoop(_, _, _)
RECURSIVE GenerateItem(_, _, _, _, _, _)
GenerateLoop(b, off, records) ==
    GenerateItem(b, off, ReadUvarint(b, off),
                 off + ReadUvarint(b, off).n,
                 ReadCid(b, off + ReadUvarint(b, off).n), records)

GenerateItem(b, thisItemIdx, l, thisItemForNxt, c, records) ==
    IF l.err # "nil"
    THEN IF l.err = "EOF" THEN [err |-> "nil", records |-> records]
         ELSE [err |-> l.err, records |-> <<>>]
    ELSE IF c.err # "nil" THEN [err |-> c.err, records |-> <<>>]
    ELSE GenerateLoop(b, thisItemForNxt + l.val,
                      Append(records, RecordOf(c.cid, thisItemIdx, thisItemForNxt)))

GenerateLoad(walk) ==
    IF walk.err # "nil" THEN [err |-> walk.err, idx |-> {}] ELSE Load(walk.records)

GenerateFrom(b, h) ==
    IF h.err # "nil" THEN [err |-> "error reading car header", idx |-> {}]
    ELSE GenerateLoad(GenerateLoop(b, HeaderSize(h.header), <<>>))

Generate(b) == GenerateFrom(b, ReadHeader(b))

-----------------------------------------------------------------------------
(* The inputs: CIDs, blocks and CARv1 payloads.                            *)

CidA == <<1, 85, 18, 2, 10, 11>>
CidB == <<1, 85, 18, 2, 10, 12>>
\* the digest of CidA under another codec
CidC == <<1, 112, 18, 2, 10, 11>>
\* never framed: a key absent from every payload
CidD == <<1, 85, 18, 1, 10>>

Cids == {CidA, CidB, CidC}
Keys == Cids \cup {CidD}

\* a payload long enough for the frame's length varint to take two bytes
BigData == [i \in 1..125 |-> 0]
DataSet == {<<7>>, BigData}

Blocks == [cid : Cids, data : DataSet]
BlockSeqs == UNION {[1..n -> Blocks] : n \in 0..MaxFrames}
RootSeqs == {<<>>, <<CidA>>}

Payload(roots, bs) == EncodeHeader([version |-> 1, roots |-> roots]) \o Frames(bs)

\* the payload without its last `cut` bytes
Truncate(b, cut) == SubSeq(b, 1, Len(b) - cut)

\* where frame j of Payload(roots, bs) starts
FrameStart(roots, bs, j) ==
    Len(EncodeHeader([version |-> 1, roots |-> roots])) + Len(Frames(SubSeq(bs, 1, j - 1)))

-----------------------------------------------------------------------------
(* SpecGen: index.Generate over a payload, then lookups in its index.      *)

GenIdle == car = <<>> /\ blocks = NoValue /\ genRes = NoValue /\ lookup = NoValue

InitGen ==
    /\ \E roots \in RootSeqs, bs \in BlockSeqs, cut \in {0, 1} :
          /\ blocks = [roots |-> roots, frames |-> bs, cut |-> cut]
          /\ car = Truncate(Payload(roots, bs), cut)
    /\ genRes = NoValue
    /\ lookup = NoValue

CallGenerate ==
    /\ genRes = NoValue
    /\ genRes' = Generate(car)
    /\ UNCHANGED <<car, blocks, lookup, storeVars, keysVars, writerVars>>

CallIndexGet(c) ==
    /\ genRes # NoValue
    /\ genRes.err = "nil"
    /\ lookup' = [key |-> c, res |-> IndexGet(genRes.idx, c)]
    /\ UNCHANGED <<car, blocks, genRes, storeVars, keysVars, writerVars>>

NextGen ==
    \/ CallGenerate
    \/ \E c \in Keys : CallIndexGet(c)

-----------------------------------------------------------------------------
(* The CARv2 container (v2/reader.go, v2/index): the pragma, the header    *)
(* fields, the embedded CARv1 and what lies at index_offset.               *)

PragmaSize == 11
V2HeaderSize == 40

NilIndex == [nil |-> TRUE, recs |-> {}]
IndexOf(recs) == [nil |-> FALSE, recs |-> recs]

\* Header.HasIndex
HasIndex(header) == header.IndexOffset # 0

\* carv2.NewReader: verify the pragma, read and validate the header.
NewReader(f) ==
    IF ~f.pragmaOK THEN [err |-> "NotCarV2", header |-> NoValue]
    ELSE IF \/ f.header.CarV1Offset < PragmaSize + V2HeaderSize
            \/ f.header.CarV1Size = 0
            \/ /\ f.header.IndexOffset # 0
               /\ f.header.IndexOffset < f.header.CarV1Offset + f.header.CarV1Size
    THEN [err |-> "InvalidHeader", header |-> NoValue]
    ELSE [err |-> "nil", header |-> f.header]

\* Reader.CarV1Reader: the section [CarV1Offset, CarV1Offset + CarV1Size)
CarV1Reader(f) == f.carv1

\* index.ReadFrom(v2r.IndexReader()): the multicodec tag, then unmarshal.
ReadFrom(f) ==
    IF f.index.kind = "sorted" THEN [err |-> "nil", idx |-> f.index.recs]
    ELSE [err |-> "UnknownIndexCodec", idx |-> {}]

\* index.Attach: append the index at the end of the file, then rewrite the
\* index_offset field of the header.
Attach(f, recs) ==
    [f EXCEPT !.index = [kind |-> "sorted", recs |-> recs],
              !.header.IndexOffset = f.header.CarV1Offset + f.header.CarV1Size]

-----------------------------------------------------------------------------
(* The ReadOnly blockstore.                                                *)

Failed(via, e) == [via |-> via, err |-> e, hadIndex |-> FALSE, store |-> NoValue]
Store(via, hadIndex, b, idx) ==
    [via |-> via, err |-> "nil", hadIndex |-> hadIndex,
     store |-> [backing |-> b, idx |-> idx]]

\* The idx of line 53 when line 70 reads it: line 55 declares a new idx inside
\* the block, so the generated index never reaches the outer variable.
OuterIdx(hasIndex, generated, read) == IF hasIndex THEN IndexOf(read) ELSE NilIndex

\* the branch of OpenReadOnly for a file without an index: `g` is what
\* index.Generate returned
OpenGenerated(f, attachIndex, attachErr, g) ==
    IF g.err # "nil" THEN [res |-> Failed("OpenReadOnly", g.err), file |-> f]
    ELSE IF attachIndex /\ attachErr
    THEN [res |-> Failed("OpenReadOnly", "Io"), file |-> f]
    ELSE [res  |-> Store("OpenReadOnly", FALSE, CarV1Reader(f), OuterIdx(FALSE, g.idx, {})),
          file |-> IF attachIndex THEN Attach(f, g.idx) ELSE f]

\* the branch for a file with an index: `r` is what index.ReadFrom returned
OpenEmbedded(f, r) ==
    IF r.err # "nil" THEN [res |-> Failed("OpenReadOnly", r.err), file |-> f]
    ELSE [res  |-> Store("OpenReadOnly", TRUE, CarV1Reader(f), OuterIdx(TRUE, {}, r.idx)),
          file |-> f]

OpenV2(f, attachIndex, attachErr, v2r) ==
    IF v2r.err # "nil" THEN [res |-> Failed("OpenReadOnly", v2r.err), file |-> f]
    ELSE IF ~HasIndex(v2r.header)
    THEN OpenGenerated(f, attachIndex, attachErr, Generate(CarV1Reader(f)))
    ELSE OpenEmbedded(f, ReadFrom(f))

\* OpenReadOnly(path, attachIndex) after mmap.Open succeeded: the result and
\* the file it leaves at path.
OpenMapped(f, attachIndex, attachErr) == OpenV2(f, attachIndex, attachErr, NewReader(f))

Result(op, key, val, err) == [op |-> op, key |-> key, val |-> val, err |-> err]

\* a call of a method of a nil index.Index
Panic(op, key) == Result(op, key, NoValue, "panic: nil pointer dereference")

HasCid(key, c) ==
    IF c.err # "nil" THEN Result("Has", key, FALSE, c.err)
    ELSE Result("Has", key, c.cid = key, "nil")

HasFrame(b, key, offset, l) ==
    IF l.err # "nil" THEN Result("Has", key, FALSE, l.err)
    ELSE HasCid(key, ReadCid(b.backing, offset + l.n))

HasAt(b, key, g) ==
    IF g.err # "nil" THEN Result("Has", key, FALSE, g.err)
    ELSE HasFrame(b, key, g.offset, ReadUvarint(b.backing, g.offset))

\* ReadOnly.Has
Has(b, key) ==
    IF b.idx.nil THEN Panic("Has", key) ELSE HasAt(b, key, IndexGet(b.idx.recs, key))

\* ReadOnly.readBlock
ReadBlock(b, idx) == ReadNode(b.backing, idx)

GetBlock(key, blk) ==
    IF blk.err # "nil" THEN Result("Get", key, NoValue, "NotFound")
    ELSE IF blk.cid # key THEN Result("Get", key, NoValue, "NotFound")
    ELSE Result("Get", key, [cid |-> key, data |-> blk.data], "nil")

GetAt(b, key, g) ==
    IF g.err # "nil" THEN Result("Get", key, NoValue, g.err)
    ELSE GetBlock(key, ReadBlock(b, g.offset))

\* ReadOnly.Get
Get(b, key) ==
    IF b.idx.nil THEN Panic("Get", key) ELSE GetAt(b, key, IndexGet(b.idx.recs, key))

GetSizeCid(key, l, c) ==
    IF c.err # "nil" THEN Result("GetSize", key, 0, c.err)
    ELSE IF c.cid # key THEN Result("GetSize", key, -1, "NotFound")
    ELSE Result("GetSize", key, l.val, "nil")

GetSizeFrame(b, key, idx, l) ==
    IF l.err # "nil" THEN Result("GetSize", key, -1, "NotFound")
    ELSE GetSizeCid(key, l, ReadCid(b.backing, idx + l.val))

GetSizeAt(b, key, g) ==
    IF g.err # "nil" THEN Result("GetSize", key, -1, g.err)
    ELSE GetSizeFrame(b, key, g.offset, ReadUvarint(b.backing, g.offset))

\* ReadOnly.GetSize
GetSize(b, key) ==
    IF b.idx.nil THEN Panic("GetSize", key)
    ELSE GetSizeAt(b, key, IndexGet(b.idx.recs, key))

-----------------------------------------------------------------------------
(* SpecStore: a CARv2 file, a store opened on it, and queries.             *)

StoreIdle == file = NoValue /\ mmapState = "none" /\ opened = NoValue /\ ret = NoValue

\* What a file may hold at index_offset: nothing, the index of its own
\* payload, the index of another payload (a stale index), or other bytes.
IndexSections ==
    {[kind |-> "none", recs |-> {}], [kind |-> "garbage", recs |-> {}]}
    \cup {[kind |-> "sorted", recs |-> Generate(Payload(<<>>, bs)).idx] :
             bs \in {x \in BlockSeqs : Generate(Payload(<<>>, x)).err = "nil"}}

\* a well-formed pragma and header, a foreign pragma, a data_offset inside
\* the header
HeaderKinds == {"ok", "NotCarV2", "InvalidHeader"}

FileOf(bs, cut, b, hk, sec) ==
    [pragmaOK |-> hk # "NotCarV2",
     header   |-> [CarV1Offset |-> IF hk = "InvalidHeader" THEN PragmaSize
                                   ELSE PragmaSize + V2HeaderSize,
                   CarV1Size   |-> Len(b),
                   IndexOffset |-> IF sec.kind = "none" THEN 0
                                   ELSE PragmaSize + V2HeaderSize + Len(b)],
     carv1    |-> b,
     index    |-> sec,
     frames   |-> bs,
     cut      |-> cut]

InitStore ==
    /\ \E bs \in BlockSeqs, cut \in {0, 1}, hk \in HeaderKinds, sec \in IndexSections :
          file = FileOf(bs, cut, Truncate(Payload(<<>>, bs), cut), hk, sec)
    /\ mmapState = "none"
    /\ opened = NoValue
    /\ ret = NoValue

Opening(r) ==
    /\ mmapState' = "open"
    /\ opened' = r.res
    /\ file' = r.file

\* OpenReadOnly(path, attachIndex); mmap.Open and index.Attach may fail.
OpenReadOnly(attachIndex, mmapErr, attachErr) ==
    /\ opened = NoValue
    /\ IF mmapErr
       THEN /\ opened' = Failed("OpenReadOnly", "open")
            /\ UNCHANGED <<file, mmapState>>
       ELSE Opening(OpenMapped(file, attachIndex, attachErr))
    /\ UNCHANGED <<ret, genVars, keysVars, writerVars>>

ReadOnlyWith(own, g) ==
    /\ g.err = "nil"
    /\ opened' = Store("ReadOnlyOf", ~own, file.carv1, IndexOf(g.idx))

\* ReadOnlyOf(backing, index), the index made by index.Generate over the
\* backing or read from the file's index section.
ReadOnlyOf(own) ==
    /\ opened = NoValue
    /\ ReadOnlyWith(own, IF own THEN Generate(file.carv1) ELSE ReadFrom(file))
    /\ UNCHANGED <<file, mmapState, ret, genVars, keysVars, writerVars>>

CallHas(key) ==
    /\ opened # NoValue /\ opened.err = "nil"
    /\ ret' = Has(opened.store, key)
    /\ UNCHANGED <<file, mmapState, opened, genVars, keysVars, writerVars>>

CallGet(key) ==
    /\ opened # NoValue /\ opened.err = "nil"
    /\ ret' = Get(opened.store, key)
    /\ UNCHANGED <<file, mmapState, opened, genVars, keysVars, writerVars>>

CallGetSize(key) ==
    /\ opened # NoValue /\ opened.err = "nil"
    /\ ret' = GetSize(opened.store, key)
    /\ UNCHANGED <<file, mmapState, opened, genVars, keysVars, writerVars>>

NextStore ==
    \/ \E attachIndex, mmapErr, attachErr \in BOOLEAN :
          OpenReadOnly(attachIndex, mmapErr, attachErr)
    \/ \E own \in BOOLEAN : ReadOnlyOf(own)
    \/ \E key \in Keys : CallHas(key)
    \/ \E key \in Keys : CallGet(key)
    \/ \E key \in Keys : CallGetSize(key)

-----------------------------------------------------------------------------
(* SpecKeys: ReadOnly.AllKeysChan, its goroutine and a consumer.           *)

ChanCap == 5

KeysIdle ==
    /\ backing = <<>> /\ prod = NoValue /\ ch = NoValue
    /\ ctxDone = FALSE /\ cons = NoValue /\ hist = NoValue

KeysBlocks(n) == [i \in 1..n |-> [cid |-> IF i % 2 = 1 THEN CidA ELSE CidB, data |-> <<7>>]]

InitKeys ==
    /\ \E n \in 0..MaxKeysFrames, cut \in {0, 1}, version \in {1, 2} :
          backing = Truncate(EncodeHeader([version |-> version, roots |-> <<>>])
                             \o Frames(KeysBlocks(n)), cut)
    /\ prod = [pc |-> "none", off |-> 0, c |-> <<>>, k |-> 0]
    /\ ch = [buf |-> <<>>, closed |-> FALSE]
    /\ ctxDone = FALSE
    /\ cons = [state |-> "idle", got |-> <<>>]
    /\ hist = [at |-> 0, late |-> {}]

AllKeysChanHeader(h) ==
    IF h.err # "nil"
    THEN /\ cons' = [cons EXCEPT !.state = "failed"]
         /\ UNCHANGED prod
    ELSE /\ cons' = [cons EXCEPT !.state = "receiving"]
         /\ prod' = [pc |-> "loop", off |-> HeaderSize(h.header), c |-> <<>>, k |-> 1]

\* AllKeysChan up to `go func()`: read the header, make the channel.
AllKeysChan ==
    /\ cons.state = "idle"
    /\ AllKeysChanHeader(ReadHeader(backing))
    /\ UNCHANGED <<backing, ch, ctxDone, hist, genVars, storeVars, writerVars>>

ProdItem(l, thisItemForNxt, c) ==
    IF l.err # "nil" \/ c.err # "nil"
    THEN prod' = [prod EXCEPT !.pc = "exited"]
    ELSE prod' = [prod EXCEPT !.pc = "select", !.c = c.cid, !.off = thisItemForNxt + l.val]

\* The goroutine from the top of the loop to the select: read the varint
\* and the CID of frame k, seek to the next frame.
ProdRead ==
    /\ prod.pc = "loop"
    /\ ProdItem(ReadUvarint(backing, prod.off),
                prod.off + ReadUvarint(backing, prod.off).n,
                ReadCid(backing, prod.off + ReadUvarint(backing, prod.off).n))
    /\ UNCHANGED <<backing, ch, ctxDone, cons, hist, genVars, storeVars, writerVars>>

\* case ch <- c: continue
ProdSend ==
    /\ prod.pc = "select"
    /\ Len(ch.buf) < ChanCap
    /\ ch' = [ch EXCEPT !.buf = Append(ch.buf, prod.c)]
    /\ prod' = [prod EXCEPT !.pc = "loop", !.c = <<>>, !.k = prod.k + 1]
    /\ hist' = IF ctxDone THEN [hist EXCEPT !.late = hist.late \cup {prod.k}] ELSE hist
    /\ UNCHANGED <<backing, ctxDone, cons, genVars, storeVars, writerVars>>

\* case <-done: return
ProdDone ==
    /\ prod.pc = "select"
    /\ ctxDone
    /\ prod' = [prod EXCEPT !.pc = "exited"]
    /\ UNCHANGED <<backing, ch, ctxDone, cons, hist, genVars, storeVars, writerVars>>

\* The caller cancels ctx; the goroutine is then at frame prod.k.
Cancel ==
    /\ ~ctxDone
    /\ cons.state = "receiving"
    /\ ctxDone' = TRUE
    /\ hist' = [hist EXCEPT !.at = prod.k]
    /\ UNCHANGED <<backing, prod, ch, cons, genVars, storeVars, writerVars>>

\* The consumer's `c, ok := <-ch`: a CID, or the end of a closed channel.
ConsRecv ==
    /\ cons.state = "receiving"
    /\ ch.buf # <<>> \/ ch.closed
    /\ IF ch.buf # <<>>
       THEN /\ cons' = [cons EXCEPT !.got = Append(cons.got, Head(ch.buf))]
            /\ ch' = [ch EXCEPT !.buf = Tail(ch.buf)]
       ELSE /\ cons' = [cons EXCEPT !.state = "ended"]
            /\ UNCHANGED ch
    /\ UNCHANGED <<backing, prod, ctxDone, hist, genVars, storeVars, writerVars>>

NextKeys ==
    \/ AllKeysChan
    \/ ProdRead
    \/ ProdSend
    \/ ProdDone
    \/ Cancel
    \/ ConsRecv

-----------------------------------------------------------------------------
(* The CARv2 Writer.  What reaches the io.Writer is a sequence of chunks,  *)
(* one per Write call: the kind of bytes written and how many.             *)

bulkPaddingBytesSize == 1024

Chunk(kind, len) == [kind |-> kind, len |-> len]

\* the `for i := 0; i < iter; i++` loop of padding.WriteTo
RECURSIVE BulkLoop(_, _, _)
BulkLoop(i, iter, acc) ==
    IF i < iter
    THEN BulkLoop(i + 1, iter,
                  [chunks |-> Append(acc.chunks, Chunk("zero", bulkPaddingBytesSize)),
                   n      |-> acc.n + bulkPaddingBytesSize])
    ELSE acc

PaddingDone(bulk, reminder) ==
    [chunks |-> Append(bulk.chunks, Chunk("zero", reminder)), n |-> bulk.n + reminder]

PaddingWriteToNoReminder(p) ==
    IF p > bulkPaddingBytesSize
    THEN PaddingDone(BulkLoop(0, p \div bulkPaddingBytesSize, [chunks |-> <<>>, n |-> 0]), 0)
    ELSE PaddingDone([chunks |-> <<>>, n |-> 0], p)

\* padding.WriteTo on a writer that does not fail: the Write calls and n.
PaddingWriteTo(p) ==
    IF p > bulkPaddingBytesSize
    THEN PaddingDone(BulkLoop(0, p \div bulkPaddingBytesSize, [chunks |-> <<>>, n |-> 0]),
                     p % bulkPaddingBytesSize)
    ELSE PaddingDone([chunks |-> <<>>, n |-> 0], p)

\* NewHeader(size).WithCarV1Padding(p1).WithIndexPadding(p2)
NewHeader(size, p1, p2) ==
    [CarV1Offset |-> PragmaSize + V2HeaderSize + p1,
     CarV1Size   |-> size,
     IndexOffset |-> PragmaSize + V2HeaderSize + p1 + size + p2]

\* one bucket of the marshalled index: width, count, data_len, the records
BucketLen(recs, wd) == 4 + 8 + 8 + Cardinality({r \in recs : Len(r.digest) = wd}) * (wd + 8)

RECURSIVE BucketsLen(_, _)
BucketsLen(recs, widths) ==
    IF widths = {} THEN 0
    ELSE LET wd == CHOOSE x \in widths : TRUE
         IN BucketLen(recs, wd) + BucketsLen(recs, widths \ {wd})

\* The length of Index.Marshal's output: the multicodec varint, the bucket
\* count, then the buckets.
MarshalLen(recs) ==
    LET widths == {Len(r.digest) : r \in recs}
    IN 2 + Len(PutUvarint(Cardinality(widths))) + BucketsLen(recs, widths)

\* carv1.WriteCarWithWalker: the header, then one frame per block walked.
WriteCarWithWalker(dag) == Payload(dag.roots, dag.blocks)

IndexWritten(g) ==
    IF g.err # "nil" THEN [n |-> 0, err |-> g.err, len |-> 0]
    ELSE [n |-> 0, err |-> "nil", len |-> MarshalLen(g.idx)]

\* Writer.writeIndex: the bytes marshalled; n is never set.
WriteIndex(carV1) == IndexWritten(Generate(carV1))

WriterIdle == w = NoValue /\ wpc = "none"

Paddings == {0, 1, 1023, 1024, 1025, 2049}
WriterCids == Keys
Dags ==
    {[roots |-> r, blocks |-> bs] :
        r \in RootSeqs,
        bs \in {x \in UNION {[1..n -> [cid : WriterCids, data : {<<7>>}]] : n \in 0..MaxFrames} :
                   \A i, j \in 1..Len(x) : i # j => x[i].cid # x[j].cid}}
Stages == {"prefix", "walk", "header", "pad1", "carv1", "pad2", "index"}

InitWriter ==
    /\ \E p1 \in Paddings, p2 \in Paddings, dag \in Dags, failAt \in Stages \cup {"none"} :
          w = [CarV1Padding |-> p1, IndexPadding |-> p2, dag |-> dag,
               failAt |-> failAt, encodedCarV1 |-> <<>>, calls |-> 0,
               out |-> <<>>, header |-> NoValue, n |-> 0, err |-> "nil"]
    /\ wpc = "none"

Return(e) == /\ w' = [w EXCEPT !.err = e]
             /\ wpc' = "returned"

\* A call of WriteTo with a fresh io.Writer.
CallWriteTo ==
    /\ wpc \in {"none", "returned"}
    /\ UNCHANGED <<genVars, storeVars, keysVars>>
    /\ w.calls < MaxCalls
    /\ w' = [w EXCEPT !.calls = w.calls + 1, !.out = <<>>, !.header = NoValue,
                      !.n = 0, !.err = "nil"]
    /\ wpc' = "prefix"

WritePrefix ==
    /\ wpc = "prefix"
    /\ UNCHANGED <<genVars, storeVars, keysVars>>
    /\ IF w.failAt = "prefix" THEN Return("Io")
       ELSE /\ w' = [w EXCEPT !.out = Append(w.out, Chunk("prefix", PragmaSize)),
                              !.n = w.n + PragmaSize]
            /\ wpc' = "walk"

WriteCarV1Buffer ==
    /\ wpc = "walk"
    /\ UNCHANGED <<genVars, storeVars, keysVars>>
    /\ IF w.failAt = "walk" THEN Return("walk")
       ELSE /\ w' = [w EXCEPT !.encodedCarV1 = w.encodedCarV1 \o WriteCarWithWalker(w.dag)]
            /\ wpc' = "header"

WriteHeader ==
    /\ wpc = "header"
    /\ UNCHANGED <<genVars, storeVars, keysVars>>
    /\ IF w.failAt = "header" THEN Return("Io")
       ELSE LET carV1Len == Len(w.encodedCarV1) IN
            /\ w' = [w EXCEPT !.out = Append(w.out, Chunk("header", V2HeaderSize)),
                              !.header = NewHeader(carV1Len, w.CarV1Padding, w.IndexPadding),
                              !.n = w.n + V2HeaderSize]
            /\ wpc' = "pad1"

WriteCarV1Padding ==
    /\ wpc = "pad1"
    /\ UNCHANGED <<genVars, storeVars, keysVars>>
    /\ IF w.failAt = "pad1" THEN Return("Io")
       ELSE /\ w' = [w EXCEPT !.out = w.out \o PaddingWriteTo(w.CarV1Padding).chunks,
                              !.n = w.n + PaddingWriteTo(w.CarV1Padding).n]
            /\ wpc' = "carv1"

WriteCarV1 ==
    /\ wpc = "carv1"
    /\ UNCHANGED <<genVars, storeVars, keysVars>>
    /\ IF w.failAt = "carv1" THEN Return("Io")
       ELSE LET wwn == Len(w.encodedCarV1) IN
            /\ w' = [w EXCEPT !.out = Append(w.out, Chunk("carv1", wwn)), !.n = w.n + wwn]
            /\ wpc' = "pad2"

WriteIndexPadding ==
    /\ wpc = "pad2"
    /\ UNCHANGED <<genVars, storeVars, keysVars>>
    /\ IF w.failAt = "pad2" THEN Return("Io")
       ELSE /\ w' = [w EXCEPT !.out = w.out \o PaddingWriteTo(w.IndexPadding).chunks,
                              !.n = w.n + PaddingWriteTo(w.IndexPadding).n]
            /\ wpc' = "index"

IndexStep(wi) ==
    IF wi.err # "nil" THEN Return(wi.err)
    ELSE IF w.failAt = "index" THEN Return("Io")
    ELSE /\ w' = [w EXCEPT !.out = Append(w.out, Chunk("index", wi.len)), !.n = w.n + wi.n]
         /\ wpc' = "returned"

WriteIndexStep ==
    /\ wpc = "index"
    /\ UNCHANGED <<genVars, storeVars, keysVars>>
    /\ IndexStep(WriteIndex(w.encodedCarV1))

NextWriter ==
    \/ CallWriteTo
    \/ WritePrefix
    \/ WriteCarV1Buffer
    \/ WriteHeader
    \/ WriteCarV1Padding
    \/ WriteCarV1
    \/ WriteIndexPadding
    \/ WriteIndexStep

-----------------------------------------------------------------------------
(* The specifications.                                                     *)

InitSpecGen == InitGen /\ StoreIdle /\ KeysIdle /\ WriterIdle

SpecGen ==
    /\ InitSpecGen
    /\ [][NextGen]_vars

InitSpecStore == InitStore /\ GenIdle /\ KeysIdle /\ WriterIdle

SpecStore ==
    /\ InitSpecStore
    /\ [][NextStore]_vars

\* The Go scheduler runs a runnable goroutine, and the consumer of the claims
\* keeps receiving; nothing obliges the caller to cancel.
InitSpecKeys == InitKeys /\ GenIdle /\ StoreIdle /\ WriterIdle

SpecKeys ==
    /\ InitSpecKeys
    /\ [][NextKeys]_vars
    /\ WF_vars(ProdRead)
    /\ WF_vars(ProdSend \/ ProdDone)
    /\ WF_vars(ConsRecv)

InitSpecWriter == InitWriter /\ GenIdle /\ StoreIdle /\ KeysIdle

SpecWriter ==
    /\ InitSpecWriter
    /\ [][NextWriter]_vars

-----------------------------------------------------------------------------
(* The claims.                                                             *)

FrameCids(bs) == {bs[k].cid : k \in 1..Len(bs)}

\* the lookup `g` of `c` names a frame of the payload that holds `c`, at the
\* frame's leading varint, and reading the frame there gives c and its data
PointsAtFrame(b, roots, bs, c, g) ==
    /\ g.err = "nil"
    /\ \E j \in 1..Len(bs) :
          /\ bs[j].cid = c
          /\ g.offset = FrameStart(roots, bs, j)
          /\ ReadNode(b, g.offset) = [err |-> "nil", cid |-> c, data |-> bs[j].data]

\* C1: for a well-formed payload and every CID c of one of its frames, the
\* index index.Generate returns maps c to the offset of the leading varint
\* of a frame whose CID is c, and reading the frame at that offset gives c
\* and that frame's payload.
C1_GenerateOffsets ==
    (genRes # NoValue /\ genRes.err = "nil" /\ blocks.cut = 0) =>
        /\ \A c \in FrameCids(blocks.frames) :
              PointsAtFrame(car, blocks.roots, blocks.frames, c, IndexGet(genRes.idx, c))
        /\ (lookup # NoValue /\ lookup.key \in FrameCids(blocks.frames)) =>
              PointsAtFrame(car, blocks.roots, blocks.frames, lookup.key, lookup.res)

\* a payload of two frames was indexed and the CID of its second frame
\* looked up
C1_Witness ==
    /\ genRes # NoValue /\ genRes.err = "nil" /\ blocks.cut = 0
    /\ Len(blocks.frames) = 2
    /\ blocks.frames[1].data = BigData
    /\ lookup # NoValue
    /\ lookup.key = blocks.frames[2].cid

OpenedOK == opened # NoValue /\ opened.err = "nil"

\* C2: a store OpenReadOnly returns for a file with index_offset = 0 holds
\* the index generated over the embedded payload, so for every CID of a
\* frame Has is true and Get returns the frame's block.
C2_OpenGeneratesIndex ==
    (OpenedOK /\ opened.via = "OpenReadOnly" /\ ~opened.hadIndex /\ file.cut = 0) =>
        /\ opened.store.idx = IndexOf(Generate(opened.store.backing).idx)
        /\ (ret # NoValue /\ ret.key \in FrameCids(file.frames) /\ ret.op = "Has") =>
              (ret.err = "nil" /\ ret.val = TRUE)
        /\ (ret # NoValue /\ ret.key \in FrameCids(file.frames) /\ ret.op = "Get") =>
              (ret.err = "nil" /\ ret.val.cid = ret.key)

\* the store's index is the one index.Generate makes over its backing
OwnIndex ==
    /\ OpenedOK
    /\ ~opened.store.idx.nil
    /\ Generate(opened.store.backing).err = "nil"
    /\ opened.store.idx.recs = Generate(opened.store.backing).idx

\* C3: with the index generated over the store's own payload, GetSize of the
\* CID of a frame returns the value of that frame's length varint, CID bytes
\* plus data bytes, without error.
C3_GetSizeIsFrameLength ==
    (OwnIndex /\ file.cut = 0 /\ ret # NoValue /\ ret.op = "GetSize"
        /\ ret.key \in FrameCids(file.frames)) =>
        /\ ret.err = "nil"
        /\ \E k \in 1..Len(file.frames) :
              /\ file.frames[k].cid = ret.key
              /\ ret.val = Len(file.frames[k].cid) + Len(file.frames[k].data)

\* C4: when the index lookup of the key reports NotFound, Has returns
\* (false, nil).
C4_HasAbsentIsFalseNil ==
    (OpenedOK /\ ret # NoValue /\ ret.op = "Has" /\ ~opened.store.idx.nil
        /\ IndexGet(opened.store.idx.recs, ret.key).err = "NotFound") =>
        (ret.err = "nil" /\ ret.val = FALSE)

\* C5: for every store and key, Get returns NotFound, or a block whose CID is
\* the key and whose data is the payload of the frame at the indexed offset,
\* that frame's CID being the key.
C5_GetBlockOrNotFound ==
    (OpenedOK /\ ret # NoValue /\ ret.op = "Get") =>
        \/ ret.err = "NotFound"
        \/ /\ ret.err = "nil"
           /\ ret.val.cid = ret.key
           /\ ReadNode(opened.store.backing,
                       IndexGet(opened.store.idx.recs, ret.key).offset)
                 = [err |-> "nil", cid |-> ret.key, data |-> ret.val.data]

\* C6: once the producer has reached the end of the payload or hit a read
\* error, a consumer that keeps receiving eventually observes the end of the
\* sequence.
C6_SequenceEnds == [](prod.pc = "exited" => <>(cons.state = "ended"))

\* C7: once ctx is cancelled, the producer enqueues no CID of a frame after
\* the one it was processing when ctx was cancelled.
C7_NoSendAfterCancel == \A k \in hist.late : k <= hist.at

\* the chunks written, adjacent chunks of one kind merged, empty ones dropped
RECURSIVE Runs(_, _)
Runs(out, acc) ==
    IF out = <<>> THEN acc
    ELSE IF Head(out).len = 0 THEN Runs(Tail(out), acc)
    ELSE IF acc # <<>> /\ acc[Len(acc)].kind = Head(out).kind
    THEN Runs(Tail(out), [acc EXCEPT ![Len(acc)].len = @ + Head(out).len])
    ELSE Runs(Tail(out), Append(acc, Head(out)))

RECURSIVE Total(_)
Total(out) == IF out = <<>> THEN 0 ELSE Head(out).len + Total(Tail(out))

\* the stream CarV1Padding, IndexPadding, the CARv1 and the index call for
Layout(p1, carV1Len, p2, indexLen) ==
    Runs(<<Chunk("prefix", 11), Chunk("header", 40), Chunk("zero", p1),
           Chunk("carv1", carV1Len), Chunk("zero", p2), Chunk("index", indexLen)>>, <<>>)

Returned == wpc = "returned" /\ w.err = "nil"

\* C8: the stream of a successful WriteTo is the 11-byte prefix, the 40-byte
\* header, CarV1Padding zero bytes, the CARv1, IndexPadding zero bytes, the
\* index; the header's data_offset is 11 + 40 + CarV1Padding, its data_size
\* the length of the CARv1 and its index_offset data_offset + data_size +
\* IndexPadding, where the first index byte is.
C8_Layout ==
    Returned =>
        /\ Runs(w.out, <<>>) = Layout(w.CarV1Padding, Len(w.encodedCarV1), w.IndexPadding,
                                      w.out[Len(w.out)].len)
        /\ w.out[Len(w.out)].kind = "index" /\ w.out[Len(w.out)].len > 0
        /\ w.header.CarV1Offset = 11 + 40 + w.CarV1Padding
        /\ w.header.CarV1Size = Len(w.encodedCarV1)
        /\ w.header.IndexOffset = w.header.CarV1Offset + w.header.CarV1Size + w.IndexPadding
        /\ Total(SubSeq(w.out, 1, Len(w.out) - 1)) = w.header.IndexOffset

\* WriteTo returned nil with both paddings written through the bulk loop
\* and a remainder
C8_Witness ==
    /\ Returned
    /\ w.CarV1Padding = 1025
    /\ w.IndexPadding = 2049
    /\ Len(w.dag.blocks) = 2

\* C9: when OpenReadOnly returns an error after the file was mapped, the
\* mapping has been closed.
C9_MappingClosedOnError ==
    (opened # NoValue /\ opened.via = "OpenReadOnly" /\ opened.err # "nil"
        /\ mmapState # "none") =>
        mmapState = "closed"

\* C10: when WriteTo returns nil, n is the number of bytes written: prefix,
\* header, paddings, CARv1 and index.
C10_CountsAllBytes == Returned => w.n = Total(w.out)

====
